---- MODULE Spec2Model ----
(***************************************************************************)
(* Model of src/index.ts: the observable project store (State,             *)
(* ProjectState), the validator, the form view (ProjectInput) and the two  *)
(* list views (ProjectList).                                               *)
(*                                                                         *)
(* Strings are sequences of one-character strings, so that length and      *)
(* trim() are computed.  Project objects live in a heap and arrays hold    *)
(* references (heap addresses), so that Array.prototype.slice() is the     *)
(* shallow copy it is in JavaScript.                                       *)
(***************************************************************************)
EXTENDS Integers, Sequences, FiniteSets, TLC

VARIABLES
    boot,              \* how many of the three top-level constructions (lines 365-369) have run
    titleInput,        \* ProjectInput.titleInput.value
    descriptionInput,  \* ProjectInput.descriptionInput.value
    peopleInput,       \* ProjectInput.peopleInput.value
    heap,              \* the Project objects ever constructed, by address
    projects,          \* ProjectState.projects: an array of references
    listeners,         \* State.listeners
    assignedProjects,  \* ProjectList.assignedProjects of the two list views
    received,          \* per listener: the array it was last handed (after what it did to it)
    invoked,           \* per listener: how many times it has been called
    stack,             \* the addProject calls in progress, innermost last
    handler,           \* position of the submit handler: "idle" or "submit"
    outcome,           \* what the last finished submit handler did
    instance,          \* ProjectState.instance: 0 while undefined, else the object
    constructed,       \* how many ProjectState objects have been constructed
    projectState,      \* the constant of line 92: 0 before it is evaluated
    clientInstance,    \* what getInstance last returned to other code: 0 if never called
    lifecycle,         \* per kind of view: the phases its last construction ran, in order
    appEl,             \* the children of the host element 'app', by element id
    listEl,            \* the children of the <ul> of each list view
    validatable,       \* a Validatable handed to validate on its own
    result             \* what validate returned for it

vars == << boot, titleInput, descriptionInput, peopleInput, heap, projects,
           listeners, assignedProjects, received, invoked, stack, handler,
           outcome, instance, constructed, projectState, clientInstance,
           lifecycle, appEl, listEl, validatable, result >>

singletonVars == << instance, constructed, projectState, clientInstance >>
domVars == << lifecycle, appEl, listEl >>
validateVars == << validatable, result >>
restVars == << singletonVars, domVars, validateVars >>

formVars == << titleInput, descriptionInput, peopleInput >>
storeVars == << heap, projects, listeners >>
viewVars == << assignedProjects, received, invoked >>

(***************************************************************************)
(* Bounds of the model.                                                    *)
(***************************************************************************)
MaxProjects == 2     \* addProject is not called once the collection is this long
NumIds == 2          \* how many distinct values Math.random() can yield
MaxListeners == 4    \* addListener is not called once the list is this long

(***************************************************************************)
(* Values.                                                                 *)
(***************************************************************************)
Active == "Active"
Finished == "Finished"

\* new Project(id, title, description, people, status)
Project(id, title, description, people, status) ==
    [ id |-> id, title |-> title, description |-> description,
      people |-> people, status |-> status ]

\* the ids (Math.random() + 1).toString(36).substring(2) can produce
Ids == 1..NumIds

\* field values a user can type
TitleValues ==
    { << "a", "b" >>,
      << "B", "u", "i", "l", "d" >>,
      << " ", "A", "P", "I", " " >> }

DescriptionValues ==
    { << "s", "h", "o", "r", "t" >>,
      << "R", "E", "S", "T", " ", "d", "e", "s", "i", "g", "n" >> }

PeopleValues ==
    { << >>, << "1" >>, << "5" >>, << "6" >>, << "x" >>, << "2", ".", "5" >> }

(***************************************************************************)
(* String and number helpers.                                              *)
(***************************************************************************)
IsSpace(c) == c = " "

RECURSIVE TrimStart(_)
TrimStart(s) ==
    IF s # << >> /\ IsSpace(Head(s)) THEN TrimStart(Tail(s)) ELSE s

RECURSIVE TrimEnd(_)
TrimEnd(s) ==
    IF s # << >> /\ IsSpace(s[Len(s)])
    THEN TrimEnd(SubSeq(s, 1, Len(s) - 1))
    ELSE s

\* String.prototype.trim
Trim(s) == TrimEnd(TrimStart(s))

DigitValue(c) ==
    CASE c = "0" -> 0 [] c = "1" -> 1 [] c = "2" -> 2 [] c = "3" -> 3
      [] c = "4" -> 4 [] c = "5" -> 5 [] c = "6" -> 6 [] c = "7" -> 7
      [] c = "8" -> 8 [] c = "9" -> 9 [] OTHER -> -1

RECURSIVE DecimalValue(_)
DecimalValue(s) ==
    IF s = << >> THEN 0
    ELSE 10 * DecimalValue(SubSeq(s, 1, Len(s) - 1)) + DigitValue(s[Len(s)])

\* A JavaScript number: NaN, or the non-negative value n + tenths / 10
Frac(n, t) == [ nan |-> FALSE, n |-> n, tenths |-> t ]
Num(n) == Frac(n, 0)
NaN == [ nan |-> TRUE, n |-> 0, tenths |-> 0 ]

IsDigits(s) == s # << >> /\ \A k \in 1..Len(s) : DigitValue(s[k]) >= 0

\* Number(string) on the strings the model types: blank is 0, a run of
\* digits is its value, digits "." digit is a value with a fraction,
\* anything else is NaN
ToNumber(s) ==
    LET t == Trim(s) IN
    IF t = << >> THEN Num(0)
    ELSE IF IsDigits(t) THEN Num(DecimalValue(t))
    ELSE IF /\ Len(t) >= 3
            /\ t[Len(t) - 1] = "."
            /\ IsDigits(SubSeq(t, 1, Len(t) - 2))
            /\ DigitValue(t[Len(t)]) >= 0
         THEN Frac(DecimalValue(SubSeq(t, 1, Len(t) - 2)), DigitValue(t[Len(t)]))
    ELSE NaN

\* x >= m with the bound exclusive
NumGeStrict(x, m) == ~x.nan /\ x.n >= m + 1

\* x >= m and x <= m for an integer m: every comparison with NaN is false
NumGe(x, m) == ~x.nan /\ x.n >= m
NumLe(x, m) == ~x.nan /\ ( x.n < m \/ ( x.n = m /\ x.tenths = 0 ) )

DigitChar(d) ==
    CASE d = 0 -> "0" [] d = 1 -> "1" [] d = 2 -> "2" [] d = 3 -> "3"
      [] d = 4 -> "4" [] d = 5 -> "5" [] d = 6 -> "6" [] d = 7 -> "7"
      [] d = 8 -> "8" [] OTHER -> "9"

RECURSIVE NatToString(_)
NatToString(n) ==
    IF n < 10 THEN << DigitChar(n) >>
    ELSE Append(NatToString(n \div 10), DigitChar(n % 10))

\* Number.prototype.toString
NumToString(x) ==
    IF x.nan THEN << "N", "a", "N" >>
    ELSE IF x.tenths # 0 THEN NatToString(x.n) \o << ".", DigitChar(x.tenths) >>
    ELSE NatToString(x.n)

\* A Validatable's value is a string or a number
StrVal(s) == [ kind |-> "string", s |-> s ]
NumVal(x) == [ kind |-> "number", x |-> x ]

\* value.toString()
ValueToString(v) == IF v.kind = "string" THEN v.s ELSE NumToString(v.x)

\* rule.f != null, the optional fields of a Validatable being record fields
Has(rule, f) == f \in DOMAIN rule

(***************************************************************************)
(* validate (lines 115-153).                                               *)
(***************************************************************************)
\* a validate whose minLength check takes the string form of any value
validateLengthOfNumbers(validatableInput) ==
    LET v == validatableInput.value IN
    /\ ( Has(validatableInput, "required") /\ validatableInput.required =>
            Len(Trim(ValueToString(v))) # 0 )
    /\ ( Has(validatableInput, "minLength") =>
            Len(ValueToString(v)) >= validatableInput.minLength )
    /\ ( Has(validatableInput, "maxLength") /\ v.kind = "string" =>
            Len(v.s) <= validatableInput.maxLength )
    /\ ( Has(validatableInput, "min") /\ v.kind = "number" =>
            NumGe(v.x, validatableInput.min) )
    /\ ( Has(validatableInput, "max") /\ v.kind = "number" =>
            NumLe(v.x, validatableInput.max) )

validate(validatableInput) ==
    LET v == validatableInput.value
        requiredOk ==
            IF Has(validatableInput, "required") /\ validatableInput.required
            THEN Len(Trim(ValueToString(v))) # 0
            ELSE TRUE
        minLengthOk ==
            IF Has(validatableInput, "minLength") /\ v.kind = "string"
            THEN Len(v.s) >= validatableInput.minLength
            ELSE TRUE
        maxLengthOk ==
            IF Has(validatableInput, "maxLength") /\ v.kind = "string"
            THEN Len(v.s) <= validatableInput.maxLength
            ELSE TRUE
        minOk ==
            IF Has(validatableInput, "min") /\ v.kind = "number"
            THEN NumGe(v.x, validatableInput.min)
            ELSE TRUE
        maxOk ==
            IF Has(validatableInput, "max") /\ v.kind = "number"
            THEN NumLe(v.x, validatableInput.max)
            ELSE TRUE
    IN  requiredOk /\ minLengthOk /\ maxLengthOk /\ minOk /\ maxOk

(***************************************************************************)
(* ProjectInput.getUserInput (lines 310-343).                              *)
(***************************************************************************)
TitleMinLength == 5
DescriptionMinLength == 10
PeopleMin == 1
PeopleMax == 5

isTitleValid(title) ==
    [ value |-> StrVal(title), required |-> TRUE, minLength |-> TitleMinLength ]

isDescriptionValid(description) ==
    [ value |-> StrVal(description), required |-> TRUE,
      minLength |-> DescriptionMinLength ]

isPeopleValid(people) ==
    [ value |-> NumVal(people), required |-> TRUE,
      min |-> PeopleMin, max |-> PeopleMax ]

\* the people rule without its upper bound
InputAcceptedNoMax(titleValue, descriptionValue, peopleValue) ==
    /\ validate(isTitleValid(titleValue))
    /\ validate(isDescriptionValid(descriptionValue))
    /\ validate([ value |-> NumVal(ToNumber(peopleValue)), required |-> TRUE,
                  min |-> PeopleMin ])

\* whether getUserInput returns the tuple (rather than alerting and returning
\* undefined) for these three field values
InputAccepted(titleValue, descriptionValue, peopleValue) ==
    ~ ( \/ ~validate(isTitleValid(titleValue))
        \/ ~validate(isDescriptionValid(descriptionValue))
        \/ ~validate(isPeopleValid(ToNumber(peopleValue))) )

(***************************************************************************)
(* Arrays of references.                                                   *)
(***************************************************************************)
\* the Project objects an array refers to, as they are now
Deref(arr) == [ k \in 1..Len(arr) |-> heap[arr[k]] ]

\* unshift where push is meant
PushFront(arr, x) == << x >> \o arr

\* Array.prototype.push
Push(arr, x) == Append(arr, x)

\* Array.prototype.pop and Array.prototype.reverse, as they leave the array
Pop(arr) == SubSeq(arr, 1, Len(arr) - 1)
Reverse(arr) == [ k \in 1..Len(arr) |-> arr[Len(arr) + 1 - k] ]

\* Array.prototype.slice(): a new array holding the same references
Slice(arr) == [ k \in 1..Len(arr) |-> arr[k] ]

(***************************************************************************)
(* Listeners.  A listener is a list view's callback (line 247) or a        *)
(* callback some other caller of addListener passed.                       *)
(***************************************************************************)
ListListener(type) == [ kind |-> type ]
ClientListener == [ kind |-> "client" ]

ProjectTypes == { "active", "finished" }

\* the two branches of the filter exchanged
RelevantProjectsSwapped(type, projs) ==
    SelectSeq(projs,
              LAMBDA a : IF type = "active"
                         THEN heap[a].status = Finished
                         ELSE heap[a].status = Active)

\* the callback of ProjectList.configure: the filter of lines 248-253
RelevantProjects(type, projs) ==
    SelectSeq(projs,
              LAMBDA a : IF type = "active"
                         THEN heap[a].status = Active
                         ELSE heap[a].status = Finished)

(***************************************************************************)
(* Views (lines 159-196): the phases a constructor runs, and attach.       *)
(***************************************************************************)
ViewKinds == { "input", "active", "finished", "item" }

\* Component.constructor (lines 164-185): the template's root element is
\* taken, then attached
ComponentPhases == << "instantiate", "attach" >>

\* ProjectItem.constructor (lines 212-218)
ProjectItemPhases == ComponentPhases \o << "setup", "configure", "renderContent" >>

\* ProjectList.constructor (lines 239-244)
ProjectListPhases == ComponentPhases \o << "setup", "renderContent", "configure" >>

\* ProjectInput.constructor (lines 289-302)
ProjectInputPhases == ComponentPhases \o << "setup", "renderContent", "configure" >>

\* Component.attach (lines 187-192) on the children of the host
attach(children, element, insertAtStart) ==
    IF insertAtStart THEN << element >> \o children ELSE Append(children, element)

ToChars(word) ==
    CASE word = "assigned" -> << " ", "a", "s", "s", "i", "g", "n", "e", "d" >>
      [] word = "person" -> << " ", "p", "e", "r", "s", "o", "n" >>
      [] word = "persons" -> << " ", "p", "e", "r", "s", "o", "n", "s" >>

\* the getter ProjectItem.persons (lines 205-210)
persons(project) ==
    IF project.people = Num(1)
    THEN << "1" >> \o ToChars("person")
    ELSE NumToString(project.people) \o ToChars("persons")

\* the <li> a ProjectItem owns once renderContent has run (lines 213,
\* 221-230), for the project at address a
ProjectItemElement(a) ==
    [ project |-> a,
      id |-> heap[a].id,
      h2 |-> heap[a].title,
      h3 |-> persons(heap[a]) \o ToChars("assigned"),
      p |-> heap[a].description ]

\* the loop of lines 274-276: one ProjectItem per item, each attached at
\* the end of the list
RECURSIVE RenderItems(_, _)
RenderItems(children, items) ==
    IF items = << >> THEN children
    ELSE RenderItems(attach(children, ProjectItemElement(Head(items)), FALSE),
                     Tail(items))

\* a render that does not clear the list first
renderProjectsNoClear(children, items) == RenderItems(children, items)

\* ProjectList.renderProjects (lines 267-277) on the children of the list
renderProjects(children, items) == RenderItems(<< >>, items)

(***************************************************************************)
(* Validatables handed to validate on its own.                             *)
(***************************************************************************)
RuleValues ==
    { StrVal(<< >>), StrVal(<< " ", " " >>), StrVal(<< "a", "b" >>),
      StrVal(<< " ", "a", "b", " " >>), StrVal(<< "a", "b", "c", "d", "e" >>),
      NumVal(Num(0)), NumVal(Num(3)), NumVal(Num(5)), NumVal(Num(6)),
      NumVal(Frac(2, 5)), NumVal(NaN) }

OptionalFields == { "required", "minLength", "maxLength", "min", "max" }

\* a Validatable with the optional fields present, value v and required req
MakeValidatable(v, present, req) ==
    [ f \in present \cup { "value" } |->
        CASE f = "value" -> v
          [] f = "required" -> req
          [] f = "minLength" -> 3
          [] f = "maxLength" -> 4
          [] f = "min" -> 1
          [] f = "max" -> 5 ]

Rules ==
    { MakeValidatable(v, present, req) :
        v \in RuleValues, present \in SUBSET OptionalFields, req \in BOOLEAN }

(***************************************************************************)
(* Initial state: the module has been evaluated up to line 91.             *)
(***************************************************************************)
ProgramInit ==
    /\ instance = 0
    /\ constructed = 0
    /\ projectState = 0
    /\ clientInstance = 0
    /\ lifecycle = [ v \in ViewKinds |-> << >> ]
    /\ appEl = << >>
    /\ listEl = [ t \in ProjectTypes |-> << >> ]
    /\ result = "none"
    /\ boot = 0
    /\ titleInput = << >>
    /\ descriptionInput = << >>
    /\ peopleInput = << >>
    /\ heap = << >>
    /\ projects = << >>
    /\ listeners = << >>
    /\ assignedProjects = [ t \in ProjectTypes |-> << >> ]
    /\ received = << >>
    /\ invoked = << >>
    /\ stack = << >>
    /\ handler = "idle"
    /\ outcome = "none"

Init == ProgramInit /\ validatable = MakeValidatable(StrVal(<< >>), { }, FALSE)

\* the script has run to its end and no event handler is running
Idle == boot = 3 /\ handler = "idle" /\ stack = << >>

(***************************************************************************)
(* State.addListener (lines 51-53).  received and invoked grow with the    *)
(* listener list.                                                          *)
(***************************************************************************)
addListener(listenerFn) ==
    /\ listeners' = Push(listeners, listenerFn)
    /\ received' = Append(received, << >>)
    /\ invoked' = Append(invoked, 0)

(***************************************************************************)
(* Bootstrap (lines 365-369).                                              *)
(***************************************************************************)
\* a getInstance that constructs on every call
getInstanceAlwaysNew ==
    /\ constructed' = constructed + 1
    /\ instance' = constructed + 1

\* ProjectState.getInstance (lines 67-73): the call returns instance'
getInstance ==
    IF instance # 0
    THEN UNCHANGED << instance, constructed >>
    ELSE /\ constructed' = constructed + 1
         /\ instance' = constructed + 1

\* line 92: const projectState = ProjectState.getInstance()
EvalProjectState ==
    /\ projectState = 0
    /\ getInstance
    /\ projectState' = instance'
    /\ UNCHANGED << clientInstance, domVars, validateVars, boot, formVars,
                    storeVars, viewVars, stack, handler, outcome >>

\* new ProjectInput(): the form is attached at the start of 'app' and its
\* submit handler registered
ConstructProjectInput ==
    /\ projectState # 0
    /\ boot = 0
    /\ boot' = 1
    /\ lifecycle' = [ lifecycle EXCEPT !["input"] = ProjectInputPhases ]
    /\ appEl' = attach(appEl, "user-input", TRUE)
    /\ UNCHANGED << singletonVars, validateVars, listEl, formVars, storeVars,
                    viewVars, stack, handler, outcome >>

\* the finished list constructed first
BootTypeSwapped == IF boot = 1 THEN "finished" ELSE "active"

\* which list view lines 368 and 369 construct
BootType == IF boot = 1 THEN "active" ELSE "finished"

\* new ProjectList(type): renderContent, then configure subscribes
ConstructProjectList ==
    /\ boot \in { 1, 2 }
    /\ boot' = boot + 1
    /\ addListener(ListListener(BootType))
    /\ lifecycle' = [ lifecycle EXCEPT ![BootType] = ProjectListPhases ]
    /\ appEl' = attach(appEl, BootType, FALSE)
    /\ UNCHANGED << singletonVars, validateVars, listEl, formVars, heap,
                    projects, assignedProjects, stack, handler, outcome >>

(***************************************************************************)
(* The user fills in the form.                                             *)
(***************************************************************************)
TypeTitle ==
    /\ Idle
    /\ \E t \in TitleValues : titleInput' = t
    /\ UNCHANGED << restVars, boot, descriptionInput, peopleInput, storeVars, viewVars,
                    stack, handler, outcome >>

TypeDescription ==
    /\ Idle
    /\ \E d \in DescriptionValues : descriptionInput' = d
    /\ UNCHANGED << restVars, boot, titleInput, peopleInput, storeVars, viewVars, stack,
                    handler, outcome >>

TypePeople ==
    /\ Idle
    /\ \E p \in PeopleValues : peopleInput' = p
    /\ UNCHANGED << restVars, boot, titleInput, descriptionInput, storeVars, viewVars,
                    stack, handler, outcome >>

(***************************************************************************)
(* ProjectState.addProject (lines 75-89).  The call pushes the new project *)
(* and enters the for...of loop; each listener call is a step of its own.  *)
(***************************************************************************)
\* a project created as finished
NewProjectFinished(id, title, description, people) ==
    Project(id, title, description, people, Finished)

\* lines 77-83
NewProject(id, title, description, people) ==
    Project(id, title, description, people, Active)

\* a call of addProject in progress: item is the project it pushed, i the
\* position of the loop of line 86; base, post and calls record the call
\* (the number of listeners at its start, the collection right after its
\* push, the listener calls it has made)
Frame(item, base, post) ==
    [ item |-> item, i |-> 1, base |-> base, post |-> post, calls |-> << >> ]

\* lines 76-84, called with the stack stk: construct the project with a
\* random id, push it and enter the loop
addProject(title, description, people, stk) ==
    /\ Len(projects) < MaxProjects
    /\ \E id \in Ids :
          heap' = Append(heap, NewProject(id, title, description, people))
    /\ projects' = Push(projects, Len(heap) + 1)
    /\ stack' = Append(stk, Frame(Len(heap) + 1, Len(listeners),
                                  [ k \in 1..Len(projects') |-> heap'[projects'[k]] ]))

Top == stack[Len(stack)]

\* the loop of line 86 has a next listener: the iterator reads the length
\* of the list at every step
LoopHasNext == stack # << >> /\ Top.i <= Len(listeners)

\* the listeners visited last to first
NextListenerReversed == Len(listeners) + 1 - Top.i

\* the listener the loop of line 86 calls next: the i-th of the list
NextListener == Top.i

\* the copy taken before the push
SnapshotBeforePush == Slice(Pop(projects))

\* the argument of line 87
Snapshot == Slice(projects)

\* the stack once the loop has called listener k, the call recorded
StackAfterCall(k) ==
    [ stack EXCEPT ![Len(stack)] =
        [ @ EXCEPT !.i = @ + 1,
                   !.calls = Append(@, [ l |-> k, seen |-> Deref(Snapshot) ]) ] ]

\* received once listener k has been handed an array and left it as `after`
ReceivedAfterCall(k, after) == [ received EXCEPT ![k] = after ]

InvokedAfterCall(k) == [ invoked EXCEPT ![k] = @ + 1 ]

\* lines 86-88 with a list view's callback (lines 247-256)
NotifyProjectList ==
    /\ LoopHasNext
    /\ listeners[NextListener].kind \in ProjectTypes
    /\ stack' = StackAfterCall(NextListener)
    /\ received' = ReceivedAfterCall(NextListener, Snapshot)
    /\ invoked' = InvokedAfterCall(NextListener)
    /\ assignedProjects' =
          [ assignedProjects EXCEPT ![listeners[NextListener].kind] =
              RelevantProjects(listeners[NextListener].kind, Snapshot) ]
    /\ listEl' =
          [ listEl EXCEPT ![listeners[NextListener].kind] =
              renderProjects(@, assignedProjects'[listeners[NextListener].kind]) ]
    /\ lifecycle' =
          IF assignedProjects'[listeners[NextListener].kind] = << >>
          THEN lifecycle
          ELSE [ lifecycle EXCEPT !["item"] = ProjectItemPhases ]
    /\ UNCHANGED << singletonVars, validateVars, appEl, boot, formVars,
                    storeVars, handler, outcome >>

\* a reset that forgets the people field
resetFormKeepsPeople ==
    /\ titleInput' = << >>
    /\ descriptionInput' = << >>
    /\ peopleInput' = peopleInput

\* ProjectInput.resetForm (lines 358-362)
resetForm ==
    /\ titleInput' = << >>
    /\ descriptionInput' = << >>
    /\ peopleInput' = << >>

\* the loop is over and addProject returns: to the listener that called it,
\* or to submitHandler, which resets the form (line 354)
ReturnAddProject ==
    /\ stack # << >>
    /\ ~LoopHasNext
    /\ stack' = SubSeq(stack, 1, Len(stack) - 1)
    /\ IF Len(stack) = 1
       THEN /\ resetForm
            /\ handler' = "idle"
            /\ outcome' = "accepted"
       ELSE UNCHANGED << formVars, handler, outcome >>
    /\ UNCHANGED << restVars, boot, storeVars, viewVars >>

(***************************************************************************)
(* ProjectInput.submitHandler (lines 345-356).                             *)
(***************************************************************************)
submitHandler ==
    /\ Idle
    /\ \/ /\ ~InputAccepted(titleInput, descriptionInput, peopleInput)
          /\ outcome' = "rejected"
          /\ UNCHANGED << restVars, boot, formVars, storeVars, viewVars, stack, handler >>
       \/ /\ InputAccepted(titleInput, descriptionInput, peopleInput)
          /\ addProject(titleInput, descriptionInput, ToNumber(peopleInput), stack)
          /\ handler' = "submit"
          /\ UNCHANGED << restVars, boot, formVars, listeners, viewVars, outcome >>

Next ==
    \/ EvalProjectState
    \/ ConstructProjectInput
    \/ ConstructProjectList
    \/ TypeTitle
    \/ TypeDescription
    \/ TypePeople
    \/ submitHandler
    \/ NotifyProjectList
    \/ ReturnAddProject

Spec == Init /\ [][Next]_vars

(***************************************************************************)
(* The store with further subscribers.  addListener is public and takes    *)
(* any Listener<Project> (line 6): a client callback is handed the array   *)
(* of line 87 and may keep it, change it, change a project in it, or call  *)
(* the store again.                                                        *)
(***************************************************************************)
\* some other code subscribes a callback between two events
ClientAddListener ==
    /\ Idle
    /\ Len(listeners) < MaxListeners
    /\ addListener(ClientListener)
    /\ UNCHANGED << restVars, boot, formVars, heap, projects, assignedProjects, stack,
                    handler, outcome >>

NextIsClient == LoopHasNext /\ listeners[NextListener].kind = "client"

\* a client callback that only reads the array
NotifyClientKeeps ==
    /\ NextIsClient
    /\ stack' = StackAfterCall(NextListener)
    /\ received' = ReceivedAfterCall(NextListener, Snapshot)
    /\ invoked' = InvokedAfterCall(NextListener)
    /\ UNCHANGED << restVars, boot, formVars, storeVars, assignedProjects, handler, outcome >>

\* a client callback that removes or reorders entries of the array it got
NotifyClientChangesArray ==
    /\ NextIsClient
    /\ stack' = StackAfterCall(NextListener)
    /\ \E after \in { Pop(Snapshot), Reverse(Snapshot) } :
          received' = ReceivedAfterCall(NextListener, after)
    /\ invoked' = InvokedAfterCall(NextListener)
    /\ UNCHANGED << restVars, boot, formVars, storeVars, assignedProjects, handler, outcome >>

\* a client callback that does items[k].status = ProjectStatus.Finished
NotifyClientSetsStatus ==
    /\ NextIsClient
    /\ stack' = StackAfterCall(NextListener)
    /\ received' = ReceivedAfterCall(NextListener, Snapshot)
    /\ invoked' = InvokedAfterCall(NextListener)
    /\ \E k \in 1..Len(Snapshot) :
          heap' = [ heap EXCEPT ![Snapshot[k]].status = Finished ]
    /\ UNCHANGED << restVars, boot, formVars, projects, listeners, assignedProjects,
                    handler, outcome >>

\* the arguments a client passes to addProject
ClientTitle == << "B", "u", "i", "l", "d" >>
ClientDescription == << "R", "E", "S", "T", " ", "d", "e", "s", "i", "g", "n" >>

\* a client callback that calls projectState.addProject
NotifyClientAddsProject ==
    /\ NextIsClient
    /\ addProject(ClientTitle, ClientDescription, Num(1), StackAfterCall(NextListener))
    /\ received' = ReceivedAfterCall(NextListener, Snapshot)
    /\ invoked' = InvokedAfterCall(NextListener)
    /\ UNCHANGED << restVars, boot, formVars, listeners, assignedProjects, handler, outcome >>

\* a client callback that calls projectState.addListener
NotifyClientSubscribes ==
    /\ NextIsClient
    /\ Len(listeners) < MaxListeners
    /\ stack' = StackAfterCall(NextListener)
    /\ listeners' = Push(listeners, ClientListener)
    /\ received' = Append(ReceivedAfterCall(NextListener, Snapshot), << >>)
    /\ invoked' = Append(InvokedAfterCall(NextListener), 0)
    /\ UNCHANGED << restVars, boot, formVars, heap, projects, assignedProjects, handler,
                    outcome >>

\* the user fills in the form with one acceptable project
TypeProject ==
    /\ Idle
    /\ titleInput' = ClientTitle
    /\ descriptionInput' = ClientDescription
    /\ peopleInput' = << "1" >>
    /\ UNCHANGED << restVars, boot, storeVars, viewVars, stack, handler, outcome >>

NextClients ==
    \/ EvalProjectState
    \/ ConstructProjectInput
    \/ ConstructProjectList
    \/ TypeProject
    \/ submitHandler
    \/ NotifyProjectList
    \/ ReturnAddProject
    \/ ClientAddListener
    \/ NotifyClientKeeps
    \/ NotifyClientChangesArray
    \/ NotifyClientSetsStatus
    \/ NotifyClientAddsProject
    \/ NotifyClientSubscribes

SpecClients == Init /\ [][NextClients]_vars

\* other code calls ProjectState.getInstance() between two events
ClientGetInstance ==
    /\ Idle
    /\ getInstance
    /\ clientInstance' = instance'
    /\ UNCHANGED << projectState, domVars, validateVars, boot, formVars,
                    storeVars, viewVars, stack, handler, outcome >>

\* the same without the callbacks that write to what they were handed
NextCallers ==
    \/ EvalProjectState
    \/ ClientGetInstance
    \/ ConstructProjectInput
    \/ ConstructProjectList
    \/ TypeProject
    \/ submitHandler
    \/ NotifyProjectList
    \/ ReturnAddProject
    \/ ClientAddListener
    \/ NotifyClientKeeps
    \/ NotifyClientAddsProject
    \/ NotifyClientSubscribes

SpecCallers == Init /\ [][NextCallers]_vars

(***************************************************************************)
(* validate on its own: a Validatable is drawn and validate applied to it. *)
(***************************************************************************)
InitValidate == ProgramInit /\ validatable \in Rules

CallValidate ==
    /\ result = "none"
    /\ result' = IF validate(validatable) THEN "valid" ELSE "invalid"
    /\ UNCHANGED << validatable, singletonVars, domVars, boot, formVars, storeVars,
                    viewVars, stack, handler, outcome >>

NextValidate == CallValidate

SpecValidate == InitValidate /\ [][NextValidate]_vars

(***************************************************************************)
(* Properties.                                                             *)
(***************************************************************************)
\* the addProject calls in progress
Frames == { stack[n] : n \in DOMAIN stack }

\* a call of addProject whose loop is over
LoopOver == stack # << >> /\ ~LoopHasNext

\* arr1 is a prefix of arr2
IsPrefix(arr1, arr2) ==
    Len(arr1) <= Len(arr2) /\ SubSeq(arr2, 1, Len(arr1)) = arr1

\* C1: an accepted submission's addProject makes the collection exactly one
\* element longer, the new item being Active and the last element; this is
\* so right after the push and still so when the call returns to the handler.
C1_AddProjectAppendsOneActive ==
    [][ /\ ( Len(stack') > Len(stack) =>
               /\ Len(projects') = Len(projects) + 1
               /\ IsPrefix(projects, projects')
               /\ projects'[Len(projects')] = stack'[Len(stack')].item
               /\ heap'[projects'[Len(projects')]].status = Active )
        /\ ( handler = "submit" /\ handler' = "idle" =>
               /\ Len(projects) = Len(Top.post)
               /\ projects[Len(projects)] = Top.item
               /\ heap[Top.item].status = Active ) ]_vars

\* C1 witness: two submissions were accepted, the second just now
C1_Witness ==
    /\ outcome = "accepted"
    /\ Idle
    /\ Len(projects) = 2
    /\ heap[projects[2]].status = Active

\* C2: when the loop of an addProject call is over, every listener that was
\* subscribed before the call has been called exactly once, with the
\* collection as it is after the append, the new item last; and all of it
\* happens while the submit handler is still running.
C2_EveryListenerOnceWithPostSnapshot ==
    /\ ( stack # << >> => handler = "submit" )
    /\ ( LoopOver =>
           \A k \in 1..Top.base :
              /\ Cardinality({ n \in DOMAIN Top.calls : Top.calls[n].l = k }) = 1
              /\ \A n \in DOMAIN Top.calls :
                    Top.calls[n].l = k =>
                       /\ Top.calls[n].seen = Deref(projects)
                       /\ Top.calls[n].seen = Top.post
                       /\ Top.calls[n].seen[Len(Top.calls[n].seen)] = heap[Top.item] )

\* C2 witness: the loop of the second addProject call is over, both list
\* views called
C2_Witness ==
    /\ LoopOver
    /\ Top.base = 2
    /\ Len(Top.calls) = 2
    /\ Len(projects) = 2

\* the field values break one of the three rules as the claim words them
RuleViolated ==
    LET n == ToNumber(peopleInput) IN
    \/ Len(titleInput) < 5
    \/ Len(descriptionInput) < 10
    \/ n.nan
    \/ n.n < 1
    \/ n.n > 5
    \/ ( n.n = 5 /\ n.tenths > 0 )

\* C3: a submission that violates a rule (title shorter than 5, description
\* shorter than 10, people outside 1..5) leaves the collection unchanged and
\* calls no listener.
C3_InvalidSubmissionChangesNothing ==
    [][ ( RuleViolated /\ submitHandler ) =>
          /\ UNCHANGED << heap, projects, listeners, invoked, received,
                          assignedProjects, stack >>
          /\ outcome' = "rejected" ]_vars

\* C3 witness: after two accepted submissions a third, with people = 6 and
\* an acceptable title and description, was rejected and the size is 2
C3_Witness ==
    /\ outcome = "rejected"
    /\ Len(projects) = 2
    /\ peopleInput = << "6" >>
    /\ Len(titleInput) >= 5
    /\ Len(descriptionInput) >= 10
    /\ \A k \in DOMAIN invoked : invoked[k] = 2

\* C4: in every notification round the listeners are called in the order
\* in which they subscribed (a listener's index is its place in that order).
C4_ListenersCalledInSubscriptionOrder ==
    \A f \in Frames :
       \A m, n \in DOMAIN f.calls : m < n => f.calls[m].l < f.calls[n].l

\* C4 witness: a round that has called three listeners, the last of them a
\* client subscribed after the two list views
C4_Witness ==
    \E f \in Frames :
       /\ Len(f.calls) >= 3
       /\ listeners[f.calls[3].l].kind = "client"

\* C5: a client that changes the array it was handed, or a project in it,
\* changes neither the store's collection (the projects it holds, read
\* through their references) nor the array any other listener received.
C5_SnapshotIsolation ==
    [][ ( NotifyClientChangesArray \/ NotifyClientSetsStatus ) =>
          /\ Deref(projects)' = Deref(projects)
          /\ \A j \in DOMAIN received :
                j # NextListener => Deref(received[j])' = Deref(received[j]) ]_vars

\* C6: within one round every listener called sees the collection as it was
\* right after the triggering append, whatever the listeners do.
C6_IdenticalSnapshotInRound ==
    \A f \in Frames : \A n \in DOMAIN f.calls : f.calls[n].seen = f.post

\* C7: no two items of the collection have the same id.
C7_UniqueIds ==
    \A m, n \in DOMAIN projects :
       m # n => heap[projects[m]].id # heap[projects[n]].id

\* C8: across every step the collection before is a prefix of the collection
\* after, item for item unchanged, and the listener list before is a prefix
\* of the listener list after.
C8_AppendOnly ==
    [][ /\ IsPrefix(projects, projects')
        /\ IsPrefix(Deref(projects), Deref(projects)')
        /\ IsPrefix(listeners, listeners') ]_vars

\* C8 witness: both lists have grown to two entries
C8_Witness ==
    /\ Len(projects) = 2
    /\ Len(listeners) = 2
    /\ stack = << >>

\* C9: the Active list view's assignedProjects never holds a Finished item
\* and the Finished list view's never holds an Active one.
C9_FilteredByStatus ==
    /\ \A k \in DOMAIN assignedProjects["active"] :
          heap[assignedProjects["active"][k]].status # Finished
    /\ \A k \in DOMAIN assignedProjects["finished"] :
          heap[assignedProjects["finished"][k]].status # Active

\* C9 witness: both list views have filtered a collection of two items
C9_Witness ==
    /\ Len(listeners) = 2
    /\ Len(received[1]) = 2
    /\ Len(received[2]) = 2
    /\ Len(assignedProjects["active"]) = 2

\* C10: every project is Active in every state; between events the Active
\* list shows the whole collection in insertion order, one entry per
\* project ever created, and the Finished list shows nothing.
C10_AllActive ==
    /\ \A a \in DOMAIN heap : heap[a].status = Active
    /\ ( handler = "idle" =>
           /\ assignedProjects["active"] = projects
           /\ Len(projects) = Len(heap)
           /\ assignedProjects["finished"] = << >> )

\* C10 witness: two submissions accepted, the handler back to idle
C10_Witness ==
    /\ Idle
    /\ Len(assignedProjects["active"]) = 2
    /\ invoked[2] = 2

\* C11: the title and description are trimmed before they are validated
\* and forwarded: every project in the store has a title and a description
\* without leading or trailing whitespace, whose trimmed lengths meet the
\* minLength rules.
C11_StoredValuesTrimmed ==
    \A a \in DOMAIN heap :
       /\ heap[a].title = Trim(heap[a].title)
       /\ heap[a].description = Trim(heap[a].description)
       /\ Len(Trim(heap[a].title)) >= 5
       /\ Len(Trim(heap[a].description)) >= 10

\* the three rules as the claim words them, on the field values
RulesHold ==
    LET n == ToNumber(peopleInput) IN
    /\ Trim(titleInput) # << >>
    /\ Len(titleInput) >= 5
    /\ Trim(descriptionInput) # << >>
    /\ Len(descriptionInput) >= 10
    /\ ~n.nan
    /\ 10 * n.n + n.tenths >= 10
    /\ 10 * n.n + n.tenths <= 50

\* C12: a submission creates a project exactly when the three rules hold
\* (title non-blank with at least 5 characters, description non-blank with
\* at least 10, 1 <= Number(people) <= 5), and every project in the store
\* has 1 <= people <= 5.
C12_CreatedIffRulesHold ==
    [][ /\ ( submitHandler => ( Len(heap') = Len(heap) + 1 <=> RulesHold ) )
        /\ \A a \in DOMAIN heap' :
              /\ ~heap'[a].people.nan
              /\ 10 * heap'[a].people.n + heap'[a].people.tenths >= 10
              /\ 10 * heap'[a].people.n + heap'[a].people.tenths <= 50 ]_vars

\* C12 witness: projects with people 1 and 5 are in the store and a
\* submission with people 6 has just been rejected
C12_Witness ==
    /\ Len(projects) = 2
    /\ heap[projects[1]].people = Num(1)
    /\ heap[projects[2]].people = Num(5)
    /\ outcome = "rejected"
    /\ peopleInput = << "6" >>
    /\ Len(titleInput) >= 5
    /\ Len(descriptionInput) >= 10

\* C13: when the submit handler finishes an accepted submission the three
\* fields are empty strings, and they are cleared only once addProject and
\* all its listener calls are over; a rejected submission ends the handler
\* normally with the three fields as they were.
C13_FieldsAfterSubmit ==
    [][ /\ ( handler = "submit" /\ handler' = "idle" =>
               /\ titleInput' = << >>
               /\ descriptionInput' = << >>
               /\ peopleInput' = << >>
               /\ outcome' = "accepted"
               /\ Len(stack) = 1
               /\ Len(Top.calls) = Len(listeners)
               /\ \A k \in DOMAIN invoked : invoked[k] = Len(projects) )
        /\ ( handler = "submit" /\ handler' = "submit" => UNCHANGED formVars )
        /\ ( submitHandler /\ ~RulesHold =>
               /\ UNCHANGED formVars
               /\ handler' = "idle"
               /\ outcome' = "rejected" ) ]_vars

\* C13 witness: one submission was accepted (and the form cleared), then a
\* filled-in form was rejected and still holds what was typed
C13_Witness ==
    /\ Len(projects) = 1
    /\ outcome = "rejected"
    /\ handler = "idle"
    /\ titleInput = << "a", "b" >>
    /\ descriptionInput = << "s", "h", "o", "r", "t" >>
    /\ peopleInput = << "6" >>

\* whether a check of the Validatable r is one that applies to it
Applies(check, r) ==
    /\ check \in DOMAIN r
    /\ CASE check = "required" -> r.required
         [] check \in { "minLength", "maxLength" } -> r.value.kind = "string"
         [] check \in { "min", "max" } -> r.value.kind = "number"

\* whether the value of r passes a check that applies to it
Passes(check, r) ==
    CASE check = "required" -> Trim(ValueToString(r.value)) # << >>
      [] check = "minLength" -> Len(r.value.s) >= r.minLength
      [] check = "maxLength" -> Len(r.value.s) <= r.maxLength
      [] check = "min" ->
           ~r.value.x.nan /\ 10 * r.value.x.n + r.value.x.tenths >= 10 * r.min
      [] check = "max" ->
           ~r.value.x.nan /\ 10 * r.value.x.n + r.value.x.tenths <= 10 * r.max

\* C14: validate returns the conjunction of the checks that apply: required
\* on the trimmed string form, minLength and maxLength only on a string,
\* min and max only on a number; an absent or kind-mismatched check never
\* makes the result false.
C14_ValidateIsConjunctionOfApplicable ==
    result # "none" =>
       ( result = "valid" <=>
            \A check \in OptionalFields :
               Applies(check, validatable) => Passes(check, validatable) )

\* C14 witness: the number 3 with minLength 3 and min 1 was found valid, the
\* length of its string form notwithstanding
C14_Witness ==
    /\ result = "valid"
    /\ validatable.value = NumVal(Num(3))
    /\ DOMAIN validatable = { "value", "required", "minLength", "min" }
    /\ validatable.required

\* C15: at most one ProjectState is ever constructed; the constant of line
\* 92 holds it, and every later getInstance call returns that same object.
C15_SingleInstance ==
    /\ constructed <= 1
    /\ ( projectState # 0 => constructed = 1 /\ instance = projectState )
    /\ ( clientInstance # 0 => clientInstance = projectState )

\* C15 witness: a later getInstance call has returned, with both list views
\* subscribed and a project in the collection
C15_Witness ==
    /\ clientInstance # 0
    /\ clientInstance = projectState
    /\ Len(listeners) >= 2
    /\ Len(projects) >= 1

\* C16: every view's construction runs instantiate, attach, field setup,
\* configure, renderContent, in this order and each once.
C16_ConstructionOrder ==
    \A v \in ViewKinds :
       lifecycle[v] # << >> =>
          lifecycle[v] =
             << "instantiate", "attach", "setup", "configure", "renderContent" >>

\* C17: the children of each list view's <ul> correspond one to one, in
\* order, to the view's assignedProjects, and show those projects; between
\* events the active list shows every project of the store exactly once.
C17_RenderedMatchesAssigned ==
    /\ \A t \in ProjectTypes :
          /\ Len(listEl[t]) = Len(assignedProjects[t])
          /\ \A k \in DOMAIN listEl[t] :
                /\ listEl[t][k].project = assignedProjects[t][k]
                /\ listEl[t][k].h2 = heap[assignedProjects[t][k]].title
                /\ listEl[t][k].p = heap[assignedProjects[t][k]].description
    /\ ( handler = "idle" =>
           /\ [ k \in DOMAIN listEl["active"] |-> listEl["active"][k].project ] = projects
           /\ listEl["finished"] = << >> )

\* C17 witness: the active list has been rendered a second time and shows
\* two items
C17_Witness ==
    /\ Idle
    /\ invoked[1] = 2
    /\ Len(listEl["active"]) = 2
    /\ listEl["active"][1].project # listEl["active"][2].project

\* C18: once the script has run the listener list is the Active list
\* view's callback followed by the Finished list view's, and nothing else
\* ever; so a finished round has made exactly two calls, and between events
\* each listener has been called once per item of the collection.
C18_ExactlyTwoListeners ==
    /\ Len(listeners) <= 2
    /\ ( boot = 3 =>
           listeners = << ListListener("active"), ListListener("finished") >> )
    /\ ( LoopOver => Len(Top.calls) = 2 )
    /\ ( handler = "idle" =>
           \A k \in DOMAIN invoked : invoked[k] = Len(projects) )

\* C18 witness: two submissions accepted, each listener called twice
C18_Witness ==
    /\ Idle
    /\ Len(projects) = 2
    /\ invoked = << 2, 2 >>
    /\ lifecycle["item"] # << >>

====
